---------------------------- MODULE Spec2Model ----------------------------
(***************************************************************************)
(* A model of rdb, a small Redis-compatible key-value server:              *)
(*   - storage/mod.rs   Storage: a map with a memory ceiling, a running    *)
(*                      byte total and an optional snapshot file;          *)
(*   - protocol/mod.rs  RespValue::to_string and parse_resp;               *)
(*   - commands/mod.rs  Command::from_str and handle_command over Storage; *)
(*   - main.rs          the accept loop, process_client and main.rs's own  *)
(*                      handle_command over a bare HashMap.                *)
(* Text is modelled as a sequence of one-character strings; "\r" and "\n"  *)
(* are the two characters of the CRLF terminator.                          *)
(***************************************************************************)
EXTENDS Integers, Sequences, FiniteSets

VARIABLES
    \* ---- storage/mod.rs: struct Storage and the file dump.rdb
    data,                 \* Storage.data: HashMap<String, String>
    current_memory,       \* Storage.current_memory
    persistence_enabled,  \* Storage.config.persistence_enabled
    disk,                 \* the content of dump.rdb
    \* ---- history of the calls made on the store
    log,                  \* the insert calls so far, each with its return value
    loaded,               \* a load_from_disk has replaced Storage.data
    saved,                \* <<m>>: the last save_to_disk wrote the records m; else <<>>
    ret,                  \* what the last Storage call returned
    \* ---- protocol/mod.rs: one value encoded, delivered in pieces and decoded
    rv,                   \* the RespValue handed to to_string (NoValue: raw input)
    wire,                 \* the bytes to deliver
    buf,                  \* the bytes delivered so far, the input of parse_resp
    res,                  \* what the last parse_resp call returned
    rphase,               \* "start", "encoded", "received", "decoded"
    calls,                \* the number of parse_resp calls made on buf so far
    overflow_checks,      \* the build panics on integer overflow (debug profile)
    \* ---- main.rs: the server and its connections
    dispatcher,           \* the handle_command process_client runs: "main" or "commands"
    pc,                   \* where each connection's task is
    cbuf,                 \* process_client's buffer, per connection
    cmd,                  \* the operation a task waits to run under the lock
    reply,                \* the response a task is about to write
    rest,                 \* the client's side: the bytes of its frame still to come
    lock,                 \* the Mutex around the store
    \* ---- history of the commands served
    acked                 \* per key, the value of the latest SET that was answered OK

storeVars == <<data, current_memory, persistence_enabled, disk, log, loaded, saved, ret>>

respVars == <<rv, wire, buf, res, rphase, calls, overflow_checks>>

serverVars == <<dispatcher, pc, cbuf, cmd, reply, rest, lock, acked>>

vars == <<storeVars, respVars, serverVars>>

----------------------------------------------------------------------------
(* Bounds of the model *)

\* Storage.config.max_memory, the ceiling in bytes, as configured for the model
MaxMemory == 5

\* the number of insert calls a behaviour records
MaxOps == 3

\* the longest Array the encoder is given
MaxItems == 2

\* the number of clients that connect
NumConns == 2

----------------------------------------------------------------------------
(* Text *)

CR == "\r"
LF == "\n"

\* the second key is one quote character, which a JSON writer must escape
Keys == { <<"a">>, <<"\"">>, <<"c", "c">> }

Values == { <<>>, <<"y", "y">> }

----------------------------------------------------------------------------
(* storage/mod.rs *)

\* what a call returned: the operation and its return value
Ret(op, val) == [op |-> op, val |-> val]

\* a HashMap<String, String> is a function from the keys it holds
EmptyMap == [k \in {} |-> <<>>]

MapPut(m, k, v) == [x \in (DOMAIN m) \cup {k} |-> IF x = k THEN v ELSE m[x]]

\* key.len() + value.len()
EntrySize(k, v) == Len(k) + Len(v)

RECURSIVE SumOver(_, _)
SumOver(m, ks) ==
    IF ks = {} THEN 0
    ELSE LET k == CHOOSE x \in ks : TRUE
         IN  EntrySize(k, m[k]) + SumOver(m, ks \ {k})

\* self.data.iter().map(|(k, v)| k.len() + v.len()).sum()
SumSizes(m) == SumOver(m, DOMAIN m)

\* Storage.config.max_memory
max_memory == MaxMemory

\* the test of line 25 without the size of the new record
ExceedsLimitIgnoresEntry(cur, size) == cur > max_memory

\* the test of line 25 with `>` weakened to `>=`
ExceedsLimitOffByOne(cur, size) == cur + size >= max_memory

\* storage/mod.rs:25  self.current_memory + entry_size > self.config.max_memory
\* (usize arithmetic; the sums of the model are far from 2^64)
ExceedsLimit(cur, size) == cur + size > max_memory

\* insert without the subtraction of lines 30-32
InsertForgetsOld(key, value) ==
    LET entry_size == EntrySize(key, value)
    IN  IF ExceedsLimit(current_memory, entry_size)
        THEN /\ ret' = Ret("insert", FALSE)
             /\ UNCHANGED <<data, current_memory>>
        ELSE /\ current_memory' = current_memory + entry_size
             /\ data' = MapPut(data, key, value)
             /\ ret' = Ret("insert", TRUE)

\* insert that drops the old record before it checks the ceiling
InsertRemovesFirst(key, value) ==
    LET entry_size == EntrySize(key, value)
        old == IF key \in DOMAIN data THEN EntrySize(key, data[key]) ELSE 0
    IN  IF ExceedsLimit(current_memory - old, entry_size)
        THEN /\ ret' = Ret("insert", FALSE)
             /\ current_memory' = current_memory - old
             /\ data' = [x \in (DOMAIN data) \ {key} |-> data[x]]
        ELSE /\ current_memory' = (current_memory - old) + entry_size
             /\ data' = MapPut(data, key, value)
             /\ ret' = Ret("insert", TRUE)

\* insert that discounts the size of the new record where the old one is due
InsertDiscountsNewSize(key, value) ==
    LET entry_size == EntrySize(key, value)
    IN  IF ExceedsLimit(current_memory, entry_size)
        THEN /\ ret' = Ret("insert", FALSE)
             /\ UNCHANGED <<data, current_memory>>
        ELSE /\ current_memory' =
                    (IF key \in DOMAIN data
                     THEN current_memory - (Len(key) + Len(value))
                     ELSE current_memory) + entry_size
             /\ data' = MapPut(data, key, value)
             /\ ret' = Ret("insert", TRUE)

\* Storage::insert: the state change, and the return value in ret
InsertCall(key, value) ==
    LET entry_size == EntrySize(key, value)
    IN  IF ExceedsLimit(current_memory, entry_size)
        THEN /\ ret' = Ret("insert", FALSE)
             /\ UNCHANGED <<data, current_memory>>
        ELSE /\ current_memory' =
                    (IF key \in DOMAIN data
                     THEN current_memory - (Len(key) + Len(data[key]))
                     ELSE current_memory) + entry_size
             /\ data' = MapPut(data, key, value)
             /\ ret' = Ret("insert", TRUE)

\* a call of Storage::insert on the store, recorded in log
Insert(key, value) ==
    /\ Len(log) < MaxOps
    /\ InsertCall(key, value)
    /\ log' = Append(log, [key |-> key, value |-> value, ok |-> ret'.val])
    /\ UNCHANGED <<persistence_enabled, disk, loaded, saved>>

\* Storage::get: a lookup, no state change
Get(key) ==
    /\ ret' = Ret("get", IF key \in DOMAIN data THEN <<"Some", data[key]>> ELSE <<"None">>)
    /\ UNCHANGED <<data, current_memory, persistence_enabled, disk, log, loaded, saved>>

\* dump.rdb: absent, or a file with its text
NoFile == [kind |-> "none"]
File(text) == [kind |-> "file", text |-> text]

\* a file that a failed write left empty
Corrupt == File(<<>>)

QUOTE == "\""
BACKSLASH == "\\"

\* serde_json's string writer: the quote, the backslash and the control
\* characters are escaped, every other character is written as it is
JsonEscapeChar(c) ==
    CASE c = QUOTE -> <<BACKSLASH, QUOTE>>
      [] c = BACKSLASH -> <<BACKSLASH, BACKSLASH>>
      [] c = LF -> <<BACKSLASH, "n">>
      [] c = CR -> <<BACKSLASH, "r">>
      [] OTHER -> <<c>>

RECURSIVE JsonEscape(_)
JsonEscape(str) ==
    IF str = <<>> THEN <<>> ELSE JsonEscapeChar(Head(str)) \o JsonEscape(Tail(str))

JsonString(str) == <<QUOTE>> \o JsonEscape(str) \o <<QUOTE>>

RECURSIVE JsonEntries(_, _, _)
JsonEntries(m, order, i) ==
    IF i > Len(order) THEN <<>>
    ELSE (IF i > 1 THEN <<",">> ELSE <<>>)
            \o JsonString(order[i]) \o <<":">> \o JsonString(m[order[i]])
            \o JsonEntries(m, order, i + 1)

\* the entries with their strings between quotes, nothing escaped
RECURSIVE UnescapedEntries(_, _, _)
UnescapedEntries(m, order, i) ==
    IF i > Len(order) THEN <<>>
    ELSE (IF i > 1 THEN <<",">> ELSE <<>>)
            \o <<QUOTE>> \o order[i] \o <<QUOTE, ":", QUOTE>> \o m[order[i]] \o <<QUOTE>>
            \o UnescapedEntries(m, order, i + 1)

\* serde_json::to_string(&self.data): the entries in the order the HashMap
\* iterates them
ToJson(m, order) == <<"{">> \o JsonEntries(m, order, 1) \o <<"}">>

\* the orders a HashMap with these keys can iterate in
Orders(keys) ==
    { o \in [1..Cardinality(keys) -> keys] : \A i, j \in DOMAIN o : i # j => o[i] # o[j] }

JsonErr == [ok |-> FALSE]

\* serde_json's string reader from the character after the opening quote:
\* the text up to the closing quote with the escapes undone; a control
\* character that is not escaped, an unknown escape and a missing closing
\* quote are errors (the files of the model hold no \b, \f, \t or \u escape)
RECURSIVE JsonStringBody(_, _, _)
JsonStringBody(text, pos, acc) ==
    IF pos > Len(text) THEN JsonErr
    ELSE LET c == text[pos]
         IN  CASE c = QUOTE -> [ok |-> TRUE, str |-> acc, next |-> pos + 1]
               [] c = BACKSLASH ->
                    IF pos + 1 > Len(text) THEN JsonErr
                    ELSE LET x == text[pos + 1]
                         IN  CASE x \in {QUOTE, BACKSLASH, "/"} ->
                                    JsonStringBody(text, pos + 2, Append(acc, x))
                               [] x = "n" -> JsonStringBody(text, pos + 2, Append(acc, LF))
                               [] x = "r" -> JsonStringBody(text, pos + 2, Append(acc, CR))
                               [] OTHER -> JsonErr
               [] c \in {CR, LF} -> JsonErr
               [] OTHER -> JsonStringBody(text, pos + 1, Append(acc, c))

JsonReadString(text, pos) ==
    IF pos > Len(text) \/ text[pos] # QUOTE THEN JsonErr
    ELSE JsonStringBody(text, pos + 1, <<>>)

\* the entries of the object from pos on: "key":"value", then a comma and
\* more, or the closing brace, which must end the text; a key that comes
\* twice keeps its last value
RECURSIVE JsonReadEntries(_, _, _)
JsonReadEntries(text, pos, m) ==
    LET key == JsonReadString(text, pos)
    IN  IF ~key.ok THEN JsonErr
        ELSE IF key.next > Len(text) \/ text[key.next] # ":" THEN JsonErr
        ELSE LET val == JsonReadString(text, key.next + 1)
             IN  IF ~val.ok THEN JsonErr
                 ELSE IF val.next > Len(text) THEN JsonErr
                 ELSE LET got == [x \in (DOMAIN m) \cup {key.str} |->
                                     IF x = key.str THEN val.str ELSE m[x]]
                      IN  CASE text[val.next] = "," -> JsonReadEntries(text, val.next + 1, got)
                            [] text[val.next] = "}" ->
                                 IF val.next = Len(text) THEN [ok |-> TRUE, map |-> got]
                                 ELSE JsonErr
                            [] OTHER -> JsonErr

\* serde_json::from_str::<HashMap<String, String>>(&data), for a text
\* without white space between its tokens
FromJson(text) ==
    IF Len(text) < 2 \/ text[1] # "{" THEN JsonErr
    ELSE IF text[2] = "}"
         THEN (IF Len(text) = 2 THEN [ok |-> TRUE, map |-> [k \in {} |-> <<>>]] ELSE JsonErr)
         ELSE JsonReadEntries(text, 2, [k \in {} |-> <<>>])

\* the file a successful save of m can write
Snapshots(m) == { File(ToJson(m, order)) : order \in Orders(DOMAIN m) }

\* save_to_disk that writes the strings without escaping them
SaveToDiskUnescaped ==
    /\ IF ~persistence_enabled
       THEN /\ ret' = Ret("save", "Ok")
            /\ UNCHANGED <<disk, saved>>
       ELSE \/ /\ disk' \in { File(<<"{">> \o UnescapedEntries(data, order, 1) \o <<"}">>) :
                                order \in Orders(DOMAIN data) }
               /\ saved' = <<data>>
               /\ ret' = Ret("save", "Ok")
            \/ /\ disk' \in {disk, Corrupt}
               /\ saved' = <<>>
               /\ ret' = Ret("save", "Err")
    /\ UNCHANGED <<data, current_memory, persistence_enabled, log, loaded>>

\* Storage::save_to_disk. serde_json::to_string of a string map cannot fail;
\* std::fs::write can, and then leaves the file as it was or empty.
SaveToDisk ==
    /\ IF ~persistence_enabled
       THEN /\ ret' = Ret("save", "Ok")
            /\ UNCHANGED <<disk, saved>>
       ELSE \/ /\ disk' \in Snapshots(data)
               /\ saved' = <<data>>
               /\ ret' = Ret("save", "Ok")
            \/ /\ disk' \in {disk, Corrupt}
               /\ saved' = <<>>
               /\ ret' = Ret("save", "Err")
    /\ UNCHANGED <<data, current_memory, persistence_enabled, log, loaded>>

\* Storage::load_from_disk
LoadFromDisk ==
    /\ IF ~persistence_enabled
       THEN /\ ret' = Ret("load", "Ok")
            /\ UNCHANGED <<data, current_memory, loaded>>
       ELSE IF disk.kind = "none"
       THEN \* read_to_string fails: the `if let Ok` is skipped
            /\ ret' = Ret("load", "Ok")
            /\ UNCHANGED <<data, current_memory, loaded>>
       ELSE LET parsed == FromJson(disk.text)
            IN  IF ~parsed.ok
                THEN \* from_str fails: `?` returns before the assignment
                     /\ ret' = Ret("load", "Err")
                     /\ UNCHANGED <<data, current_memory, loaded>>
                ELSE /\ data' = parsed.map
                     /\ current_memory' = SumSizes(parsed.map)
                     /\ loaded' = TRUE
                     /\ ret' = Ret("load", "Ok")
    /\ UNCHANGED <<persistence_enabled, disk, log, saved>>

\* snapshot files left by an earlier process, one of them above the ceiling
ForeignSnapshots ==
    { File(ToJson([k \in {<<"a">>} |-> <<"y", "y">>], <<(<<"a">>)>>)),
      File(ToJson([k \in Keys |-> <<"y", "y">>], <<(<<"a">>), (<<QUOTE>>), (<<"c", "c">>)>>)) }

\* Storage::new, with the file system as the process finds it
StorageInit ==
    /\ data = EmptyMap
    /\ current_memory = 0
    /\ persistence_enabled \in BOOLEAN
    /\ disk \in {NoFile, Corrupt} \cup ForeignSnapshots
    /\ log = <<>>
    /\ loaded = FALSE
    /\ saved = <<>>
    /\ ret = Ret("new", "Ok")

----------------------------------------------------------------------------
(* protocol/mod.rs: the values *)

\* A &str is its UTF-8 bytes. U+00E9 is the two bytes E1 E2, E2 a continuation
\* byte: an index that falls on it is not a char boundary.
E1 == "C3"
E2 == "A9"

CRLF == <<CR, LF>>

\* enum RespValue
SimpleString(s) == [t |-> "SimpleString", s |-> s]
Error(s) == [t |-> "Error", s |-> s]
Integer(n) == [t |-> "Integer", n |-> n]
\* Option<String>: <<>> is None, <<s>> is Some(s)
BulkString(opt) == [t |-> "BulkString", opt |-> opt]
Array(items) == [t |-> "Array", items |-> items]

NoValue == [t |-> "none"]

\* enum RespError, and a panic of the thread that called parse_resp
Ok(v, n) == [k |-> "Ok", v |-> v, n |-> n]
Incomplete == [k |-> "Incomplete"]
InvalidFormat == [k |-> "InvalidFormat"]
Panic == [k |-> "Panic"]
NoResult == [k |-> "none"]

----------------------------------------------------------------------------
(* protocol/mod.rs: RespValue::to_string *)

DigitChars == <<"0", "1", "2", "3", "4", "5", "6", "7", "8", "9">>

\* format!("{}", n) of a non-negative integer
RECURSIVE FormatNat(_)
FormatNat(n) ==
    IF n < 10 THEN <<DigitChars[n + 1]>>
    ELSE FormatNat(n \div 10) \o <<DigitChars[(n % 10) + 1]>>

\* format!("{}", n) of an i64 or a usize
FormatInt(n) == IF n < 0 THEN <<"-">> \o FormatNat(0 - n) ELSE FormatNat(n)

\* to_string whose bulk-string arm omits the CRLF after the body
RECURSIVE ToStringNoBodyCrlf(_)
ToStringNoBodyCrlf(v) ==
    CASE v.t = "SimpleString" -> <<"+">> \o v.s \o CRLF
      [] v.t = "Error" -> <<"-">> \o v.s \o CRLF
      [] v.t = "Integer" -> <<":">> \o FormatInt(v.n) \o CRLF
      [] v.t = "BulkString" ->
            IF v.opt = <<>> THEN <<"$", "-", "1">> \o CRLF
            ELSE <<"$">> \o FormatInt(Len(v.opt[1])) \o CRLF \o v.opt[1]
      [] v.t = "Array" ->
            LET RECURSIVE Concat(_)
                Concat(i) ==
                    IF i > Len(v.items) THEN <<>>
                    ELSE ToStringNoBodyCrlf(v.items[i]) \o Concat(i + 1)
            IN  <<"*">> \o FormatInt(Len(v.items)) \o CRLF \o Concat(1)

\* RespValue::to_string
RECURSIVE ToString(_)
ToString(v) ==
    CASE v.t = "SimpleString" -> <<"+">> \o v.s \o CRLF
      [] v.t = "Error" -> <<"-">> \o v.s \o CRLF
      [] v.t = "Integer" -> <<":">> \o FormatInt(v.n) \o CRLF
      [] v.t = "BulkString" ->
            IF v.opt = <<>> THEN <<"$", "-", "1">> \o CRLF
            ELSE <<"$">> \o FormatInt(Len(v.opt[1])) \o CRLF \o v.opt[1] \o CRLF
      [] v.t = "Array" ->
            LET RECURSIVE Concat(_)
                Concat(i) ==
                    IF i > Len(v.items) THEN <<>>
                    ELSE ToString(v.items[i]) \o Concat(i + 1)
            IN  <<"*">> \o FormatInt(Len(v.items)) \o CRLF \o Concat(1)

----------------------------------------------------------------------------
(* protocol/mod.rs: parse_resp *)

\* s.rfind("\r\n"): the byte index of the last CRLF, -1 for None
FindLastCrlf(s) ==
    LET hits == { i \in 1..(Len(s) - 1) : s[i] = CR /\ s[i + 1] = LF }
    IN  IF hits = {} THEN -1
        ELSE (CHOOSE i \in hits : \A j \in hits : i >= j) - 1

\* s.find("\r\n"): the byte index of the first CRLF, -1 for None
FindCrlf(s) ==
    LET hits == { i \in 1..(Len(s) - 1) : s[i] = CR /\ s[i + 1] = LF }
    IN  IF hits = {} THEN -1
        ELSE (CHOOSE i \in hits : \A j \in hits : i <= j) - 1

\* str::is_char_boundary
IsCharBoundary(s, i) ==
    \/ i = 0
    \/ i = Len(s)
    \/ (0 < i /\ i < Len(s) /\ s[i + 1] # E2)

\* &s[a..b] panics unless a <= b <= len and both lie on char boundaries
SliceOk(s, a, b) ==
    /\ 0 <= a /\ a <= b /\ b <= Len(s)
    /\ IsCharBoundary(s, a)
    /\ IsCharBoundary(s, b)

\* &s[a..b], byte indices from 0
Slice(s, a, b) == SubSeq(s, a + 1, b)

IsDigit(c) == \E d \in 1..10 : DigitChars[d] = c

DigitValue(c) == (CHOOSE d \in 1..10 : DigitChars[d] = c) - 1

RECURSIVE DigitsValue(_)
DigitsValue(ds) ==
    IF Len(ds) = 0 THEN 0
    ELSE 10 * DigitsValue(SubSeq(ds, 1, Len(ds) - 1)) + DigitValue(ds[Len(ds)])

\* str::parse::<i64>: an optional sign and at least one digit, nothing else.
\* (The digit strings of the model are short: none is out of the i64 range.)
ParseI64(s) ==
    LET signed == Len(s) > 0 /\ s[1] \in {"+", "-"}
        digits == IF signed THEN Tail(s) ELSE s
    IN  IF Len(digits) = 0 \/ \E i \in 1..Len(digits) : ~IsDigit(digits[i])
        THEN [ok |-> FALSE, n |-> 0]
        ELSE [ok |-> TRUE,
              n |-> IF s[1] = "-" THEN 0 - DigitsValue(digits) ELSE DigitsValue(digits)]

\* parse_simple_string
ParseSimpleString(input) ==
    LET end == FindCrlf(Tail(input))
    IN  IF end >= 0
        THEN Ok(SimpleString(SubSeq(input, 2, end + 1)), end + 3)
        ELSE Incomplete

\* parse_error
ParseError(input) ==
    LET end == FindCrlf(Tail(input))
    IN  IF end >= 0
        THEN Ok(Error(SubSeq(input, 2, end + 1)), end + 3)
        ELSE Incomplete

\* parse_integer
ParseInteger(input) ==
    LET end == FindCrlf(Tail(input))
    IN  IF end >= 0
        THEN LET num == ParseI64(SubSeq(input, 2, end + 1))
             IN  IF num.ok THEN Ok(Integer(num.n), end + 3) ELSE InvalidFormat
        ELSE Incomplete

\* the rest of parse_bulk_string once `end` is a usize that did not overflow
BulkBody(input, start, end) ==
    IF Len(input) < end + 2 THEN Incomplete
    ELSE IF ~SliceOk(input, end, end + 2) THEN Panic
    ELSE IF Slice(input, end, end + 2) # CRLF THEN InvalidFormat
    ELSE IF ~SliceOk(input, start, end) THEN Panic
    ELSE Ok(BulkString(<<Slice(input, start, end)>>), end + 2)

\* parse_bulk_string that reports a short body as a format error
ParseBulkStringShortIsError(input, checks) ==
    LET len_end == FindCrlf(Tail(input))
        length == ParseI64(SubSeq(input, 2, len_end + 1))
        start == len_end + 3
    IN  IF len_end < 0 THEN Incomplete
        ELSE IF ~length.ok THEN InvalidFormat
        ELSE IF length.n = -1 THEN Ok(BulkString(<<>>), len_end + 3)
        ELSE IF Len(input) < start + length.n + 2 THEN InvalidFormat
        ELSE BulkBody(input, start, start + length.n)

\* parse_bulk_string. `length as usize` of a negative length is 2^64 + length,
\* so `start + length as usize` and `end + 2` overflow for some of them: a
\* panic where overflow is checked, the wrapped value where it is not.
ParseBulkString(input, checks) ==
    LET len_end == FindCrlf(Tail(input))
        length == ParseI64(SubSeq(input, 2, len_end + 1))
        start == len_end + 3
    IN  IF len_end < 0 THEN Incomplete
        ELSE IF ~length.ok THEN InvalidFormat
        ELSE IF length.n = -1 THEN Ok(BulkString(<<>>), len_end + 3)
        ELSE IF length.n >= 0 THEN BulkBody(input, start, start + length.n)
        ELSE IF start + length.n >= 0
             \* start + (2^64 + length) wraps to start + length
             THEN IF checks THEN Panic ELSE BulkBody(input, start, start + length.n)
        ELSE IF start + length.n + 2 >= 0
             \* end = 2^64 + start + length, and end + 2 wraps to 0 or 1:
             \* input.len() is not below it, and &input[end..end + 2] panics
             THEN Panic
        \* end + 2 is about 2^64: input.len() < end + 2
        ELSE Incomplete

RECURSIVE ParseResp(_, _)
RECURSIVE ParseArrayItems(_, _, _, _, _)

\* the loop of parse_array: `left` iterations to go, the next frame at `pos`
ParseArrayItems(input, checks, pos, left, items) ==
    IF left <= 0 THEN Ok(Array(items), pos)
    ELSE IF pos >= Len(input) THEN Incomplete
    ELSE IF ~SliceOk(input, pos, Len(input)) THEN Panic
    ELSE LET r == ParseResp(Slice(input, pos, Len(input)), checks)
         IN  IF r.k # "Ok" THEN r
             ELSE ParseArrayItems(input, checks, pos + r.n, left - 1, Append(items, r.v))

\* parse_array
ParseArray(input, checks) ==
    LET len_end == FindCrlf(Tail(input))
        length == ParseI64(SubSeq(input, 2, len_end + 1))
    IN  IF len_end < 0 THEN Incomplete
        ELSE IF ~length.ok THEN InvalidFormat
        ELSE IF length.n = -1 THEN Ok(Array(<<>>), len_end + 3)
        ELSE ParseArrayItems(input, checks, len_end + 3, length.n, <<>>)

\* parse_resp
ParseResp(input, checks) ==
    IF Len(input) = 0 THEN Incomplete
    ELSE CASE input[1] = "+" -> ParseSimpleString(input)
           [] input[1] = "-" -> ParseError(input)
           [] input[1] = ":" -> ParseInteger(input)
           [] input[1] = "$" -> ParseBulkString(input, checks)
           [] input[1] = "*" -> ParseArray(input, checks)
           [] OTHER -> InvalidFormat

----------------------------------------------------------------------------
(* protocol/mod.rs: a value encoded, delivered piece by piece and decoded *)

SeqsUpTo(S, n) == UNION { [1..m -> S] : m \in 0..n }

\* the text of SimpleString and Error values; three hold CR or LF
SimpleTexts ==
    { <<>>, <<"O", "K">>, <<CR>>, <<"a", CR, LF>>, <<CR, LF, "b">> }

\* the text of BulkString values
BulkTexts ==
    { <<>>, <<"a">>, <<CR, LF>>, <<E1, E2>>, <<"+", "1">>,
      <<"a", "a", "a", "a", "a", "a", "a", "a", "a", "a">> }

Ints == { 0, 7, -1, -12, 10 }

Scalars ==
    { SimpleString(t) : t \in SimpleTexts } \cup { Error(t) : t \in SimpleTexts }
        \cup { Integer(n) : n \in Ints }
        \cup { BulkString(<<t>>) : t \in BulkTexts } \cup { BulkString(<<>>) }

ItemValues ==
    { BulkString(<<(<<"a">>)>>), BulkString(<<>>), Integer(-1),
      SimpleString(<<"O", "K">>), Error(<<"a", CR, LF>>) }

FlatArrays == { Array(items) : items \in SeqsUpTo(ItemValues, MaxItems) }

NestItems ==
    { Array(<<>>), Array(<<BulkString(<<(<<"a">>)>>)>>),
      Array(<<Integer(-1), BulkString(<<>>)>>), BulkString(<<(<<E1, E2>>)>>) }

NestedArrays == { Array(items) : items \in SeqsUpTo(NestItems, MaxItems) }

\* the values handed to to_string
RespValues == Scalars \cup FlatArrays \cup NestedArrays

\* inputs of parse_resp that to_string does not produce
RawInputs ==
    { <<"*", "-", "1", CR, LF>>,
      <<"*", "-", "2", CR, LF>>,
      <<"$", "-", "2", CR, LF>>,
      <<"$", "-", "3", CR, LF>>,
      <<"$", "-", "7", CR, LF>>,
      <<"$", "-", "9", CR, LF>>,
      <<"$", "x", CR, LF>>,
      <<"$", "1", CR, LF, E1, E2, CR, LF>>,
      <<"$", "1", CR, LF, "a", "b", "c">>,
      <<":", "+", "5", CR, LF>>,
      <<":", "0", "7", CR, LF>>,
      <<":", CR, LF>>,
      <<":", "x", CR, LF>>,
      <<"x">>,
      <<E1, E2, CR, LF>>,
      <<"+", "O", "K", CR, LF, "+", "N", "O", CR, LF>>,
      <<"*", "1", CR, LF, "$", "1", CR, LF, "a", CR, LF, ":", "1", CR, LF>>,
      <<"*", "2", CR, LF, "$", "-", "1", CR, LF, ":", "x", CR, LF>>,
      <<"*", "x", CR, LF>> }

RespInit ==
    /\ \/ rv \in RespValues /\ wire = <<>> /\ rphase = "start"
       \/ rv = NoValue /\ wire \in RawInputs /\ rphase = "encoded"
    /\ buf = <<>>
    /\ res = NoResult
    /\ calls = 0
    /\ overflow_checks \in BOOLEAN

\* the protocol engine at rest, for the specifications of the other parts
RespOff ==
    /\ rv = NoValue
    /\ wire = <<>>
    /\ buf = <<>>
    /\ res = NoResult
    /\ rphase = "off"
    /\ calls = 0
    /\ overflow_checks = FALSE

\* v.to_string()
Encode ==
    /\ rphase = "start"
    /\ wire' = ToString(rv)
    /\ rphase' = "encoded"
    /\ UNCHANGED <<rv, buf, res, calls, overflow_checks>>

\* the next k bytes arrive (a &str: the piece ends on a char boundary)
Receive(k) ==
    /\ rphase \in {"encoded", "decoded"}
    /\ res.k # "Panic"
    /\ Len(buf) + k <= Len(wire)
    /\ IsCharBoundary(wire, Len(buf) + k)
    /\ buf' = buf \o SubSeq(wire, Len(buf) + 1, Len(buf) + k)
    /\ rphase' = "received"
    /\ UNCHANGED <<rv, wire, res, calls, overflow_checks>>

\* parse_resp(&buf)
Decode ==
    /\ rphase = "received"
    /\ res' = ParseResp(buf, overflow_checks)
    /\ rphase' = "decoded"
    /\ calls' = calls + 1
    /\ UNCHANGED <<rv, wire, buf, overflow_checks>>

----------------------------------------------------------------------------
(* The string literals of commands/mod.rs and main.rs, byte by byte *)

\* CommandError::InvalidFormat, commands/mod.rs:17
ErrInvalidCommandFormat ==
    <<"i", "n", "v", "a", "l", "i", "d", " ", "c", "o", "m", "m", "a", "n",
      "d", " ", "f", "o", "r", "m", "a", "t">>

\* CommandError::UnknownCommand, commands/mod.rs:19 (the command follows)
ErrUnknownCommand ==
    <<"u", "n", "k", "n", "o", "w", "n", " ", "c", "o", "m", "m", "a", "n",
      "d", ":", " ">>

\* CommandError::WrongNumberOfArguments, commands/mod.rs:21
ErrWrongNumberOfArguments ==
    <<"w", "r", "o", "n", "g", " ", "n", "u", "m", "b", "e", "r", " ", "o",
      "f", " ", "a", "r", "g", "u", "m", "e", "n", "t", "s", " ", "f", "o",
      "r", " ", "c", "o", "m", "m", "a", "n", "d">>

\* commands/mod.rs:91
ErrMaxMemory ==
    <<"E", "R", "R", " ", "m", "a", "x", " ", "m", "e", "m", "o", "r", "y",
      " ", "l", "i", "m", "i", "t", " ", "e", "x", "c", "e", "e", "d", "e",
      "d">>

\* commands/mod.rs:121 (the io::Error follows)
ErrSaving ==
    <<"E", "R", "R", " ", "s", "a", "v", "i", "n", "g", " ", "t", "o", " ",
      "d", "i", "s", "k", ":", " ">>

\* the Display of the io::Error of std::fs::write
IoErrorText ==
    <<"i", "o", " ", "e", "r", "r", "o", "r">>

\* commands/mod.rs:105-106
InfoHead ==
    <<"#", " ", "S", "e", "r", "v", "e", "r", CR, LF, "r", "e", "d", "i",
      "s", "_", "v", "e", "r", "s", "i", "o", "n", ":", "1", ".", "0", ".",
      "0", CR, LF, "#", " ", "M", "e", "m", "o", "r", "y", CR, LF, "u", "s",
      "e", "d", "_", "m", "e", "m", "o", "r", "y", ":">>

\* commands/mod.rs:106-107
InfoPersistence ==
    <<CR, LF, "p", "e", "r", "s", "i", "s", "t", "e", "n", "c", "e", "_",
      "e", "n", "a", "b", "l", "e", "d", ":">>

\* format!("{}", true)
TextTrue ==
    <<"t", "r", "u", "e">>

\* format!("{}", false)
TextFalse ==
    <<"f", "a", "l", "s", "e">>

\* commands/mod.rs:89
TextOK ==
    <<"O", "K">>

\* main.rs:72
MainErrInvalidResp ==
    <<"-", "E", "R", "R", " ", "i", "n", "v", "a", "l", "i", "d", " ", "R",
      "E", "S", "P", " ", "f", "o", "r", "m", "a", "t", CR, LF>>

\* main.rs:89
MainErrEmpty ==
    <<"-", "E", "R", "R", " ", "e", "m", "p", "t", "y", " ", "c", "o", "m",
      "m", "a", "n", "d", CR, LF>>

\* main.rs:95
MainErrSetArity ==
    <<"-", "E", "R", "R", " ", "w", "r", "o", "n", "g", " ", "n", "u", "m",
      "b", "e", "r", " ", "o", "f", " ", "a", "r", "g", "u", "m", "e", "n",
      "t", "s", " ", "f", "o", "r", " ", "'", "s", "e", "t", "'", " ", "c",
      "o", "m", "m", "a", "n", "d", CR, LF>>

\* main.rs:103
MainErrGetArity ==
    <<"-", "E", "R", "R", " ", "w", "r", "o", "n", "g", " ", "n", "u", "m",
      "b", "e", "r", " ", "o", "f", " ", "a", "r", "g", "u", "m", "e", "n",
      "t", "s", " ", "f", "o", "r", " ", "'", "g", "e", "t", "'", " ", "c",
      "o", "m", "m", "a", "n", "d", CR, LF>>

\* main.rs:124
MainErrUnknown ==
    <<"-", "E", "R", "R", " ", "u", "n", "k", "n", "o", "w", "n", " ", "c",
      "o", "m", "m", "a", "n", "d", CR, LF>>

\* main.rs:99
MainOK ==
    <<"+", "O", "K", CR, LF>>

\* main.rs:108
MainNullBulk ==
    <<"$", "-", "1", CR, LF>>

\* main.rs:114
MainEmptyArray ==
    <<"*", "0", CR, LF>>

\* main.rs:116
MainNullArray ==
    <<"*", "-", "1", CR, LF>>

\* main.rs:121
MainInfo ==
    <<"#", " ", "S", "e", "r", "v", "e", "r", CR, LF, "r", "e", "d", "i",
      "s", "_", "v", "e", "r", "s", "i", "o", "n", ":", "1", ".", "0", ".",
      "0", CR, LF>>

\* "SET"
NameSET ==
    <<"S", "E", "T">>

\* "GET"
NameGET ==
    <<"G", "E", "T">>

\* "INFO"
NameINFO ==
    <<"I", "N", "F", "O">>

\* "COMMAND"
NameCOMMAND ==
    <<"C", "O", "M", "M", "A", "N", "D">>

\* "MEMORY"
NameMEMORY ==
    <<"M", "E", "M", "O", "R", "Y">>

\* "SAVE"
NameSAVE ==
    <<"S", "A", "V", "E">>

----------------------------------------------------------------------------
(* commands/mod.rs and main.rs: reading a request out of the buffer *)

\* String::from_utf8_lossy: U+FFFD (EF BF BD) replaces each byte that is not
\* part of a well-formed sequence
RECURSIVE Utf8Lossy(_)
Utf8Lossy(bytes) ==
    IF Len(bytes) = 0 THEN <<>>
    ELSE IF bytes[1] = E1 /\ Len(bytes) >= 2 /\ bytes[2] = E2
         THEN <<E1, E2>> \o Utf8Lossy(SubSeq(bytes, 3, Len(bytes)))
    ELSE IF bytes[1] \in {E1, E2}
         THEN <<"EF", "BF", "BD">> \o Utf8Lossy(Tail(bytes))
    ELSE <<bytes[1]>> \o Utf8Lossy(Tail(bytes))

\* cmd.split("\r\n").collect(): never empty, the last line is what follows
\* the last CRLF
RECURSIVE SplitCrlf(_)
SplitCrlf(s) ==
    LET at == FindCrlf(s)
    IN  IF at < 0 THEN <<s>>
        ELSE <<SubSeq(s, 1, at)>> \o SplitCrlf(SubSeq(s, at + 3, Len(s)))

\* line.starts_with(c)
StartsWith(line, c) == Len(line) > 0 /\ line[1] = c

\* the ASCII letters, for to_uppercase
LowerChars ==
    <<"a", "b", "c", "d", "e", "f", "g", "h", "i", "j", "k", "l", "m", "n",
      "o", "p", "q", "r", "s", "t", "u", "v", "w", "x", "y", "z">>

UpperChars ==
    <<"A", "B", "C", "D", "E", "F", "G", "H", "I", "J", "K", "L", "M", "N",
      "O", "P", "Q", "R", "S", "T", "U", "V", "W", "X", "Y", "Z">>

UpperChar(c) ==
    IF \E i \in 1..Len(LowerChars) : LowerChars[i] = c
    THEN UpperChars[CHOOSE i \in 1..Len(LowerChars) : LowerChars[i] = c]
    ELSE c

\* str::to_uppercase
ToUppercase(t) == [i \in 1..Len(t) |-> UpperChar(t[i])]

\* what the `while i < lines.len()` loop leaves in args; "spin" when it never
\* ends: a line that starts with '$' and is the last one leaves i unchanged
Spin == [spin |-> TRUE, args |-> <<>>]

\* commands/mod.rs:38-49 and main.rs:75-86, i counted from 0 as in the source
RECURSIVE CollectArgs(_, _, _)
CollectArgs(lines, i, args) ==
    IF ~(i < Len(lines)) THEN [spin |-> FALSE, args |-> args]
    ELSE IF StartsWith(lines[i + 1], "$")
         THEN IF i + 1 < Len(lines)
              THEN CollectArgs(lines, i + 2, Append(args, lines[i + 2]))
              ELSE Spin
    ELSE CollectArgs(lines, i + 1, args)

\* what a handler does next: write a reply, take the lock for a store
\* operation, or loop for ever
ReplyNow(bytes) == [k |-> "reply", bytes |-> bytes]
NeedStore(op, args) == [k |-> "store", op |-> op, args |-> args]
Hang == [k |-> "hang"]

NoCmd == [k |-> "none"]

----------------------------------------------------------------------------
(* commands/mod.rs: Command::from_str and handle_command *)

\* Command::from_str: Ok(Command) or Err(CommandError)
FromStr(s) ==
    LET lines == SplitCrlf(s)
        got == CollectArgs(lines, 1, <<>>)
        args == got.args
    IN  IF ~StartsWith(lines[1], "*")
        THEN [k |-> "Err", e |-> ErrInvalidCommandFormat]
        ELSE IF got.spin THEN [k |-> "spin"]
        ELSE IF Len(args) = 0
        THEN [k |-> "Err", e |-> ErrInvalidCommandFormat]
        ELSE LET name == ToUppercase(args[1])
             IN  CASE name = NameSET ->
                        IF Len(args) # 3
                        THEN [k |-> "Err", e |-> ErrWrongNumberOfArguments]
                        ELSE [k |-> "Ok", cmd |-> "Set", args |-> <<args[2], args[3]>>]
                   [] name = NameGET ->
                        IF Len(args) # 2
                        THEN [k |-> "Err", e |-> ErrWrongNumberOfArguments]
                        ELSE [k |-> "Ok", cmd |-> "Get", args |-> <<args[2]>>]
                   [] name = NameINFO -> [k |-> "Ok", cmd |-> "Info", args |-> <<>>]
                   [] name = NameCOMMAND ->
                        [k |-> "Ok", cmd |-> "CmdInfo", args |-> <<>>]
                   [] name = NameMEMORY -> [k |-> "Ok", cmd |-> "Memory", args |-> <<>>]
                   [] name = NameSAVE -> [k |-> "Ok", cmd |-> "Save", args |-> <<>>]
                   [] OTHER -> [k |-> "Err", e |-> ErrUnknownCommand \o name]

\* commands/mod.rs handle_command up to its first db.lock().await
CommandsBegin(s) ==
    LET c == FromStr(s)
    IN  CASE c.k = "spin" -> Hang
          [] c.k = "Err" -> ReplyNow(ToString(Error(c.e)))
          [] c.cmd = "CmdInfo" -> ReplyNow(ToString(Array(<<>>)))
          [] OTHER -> NeedStore(c.cmd, c.args)

----------------------------------------------------------------------------
(* main.rs: handle_command *)

\* main.rs handle_command up to its first db.lock().await
MainBegin(s) ==
    LET lines == SplitCrlf(s)
        got == CollectArgs(lines, 1, <<>>)
        args == got.args
    IN  IF ~StartsWith(lines[1], "*")
        THEN ReplyNow(MainErrInvalidResp)
        ELSE IF got.spin THEN Hang
        ELSE IF Len(args) = 0
        THEN ReplyNow(MainErrEmpty)
        ELSE LET name == ToUppercase(args[1])
             IN  CASE name = NameSET ->
                        IF Len(args) # 3
                        THEN ReplyNow(MainErrSetArity)
                        ELSE NeedStore("Set", <<args[2], args[3]>>)
                   [] name = NameGET ->
                        IF Len(args) # 2
                        THEN ReplyNow(MainErrGetArity)
                        ELSE NeedStore("Get", <<args[2]>>)
                   [] name = NameCOMMAND ->
                        IF Len(args) = 1
                        THEN ReplyNow(MainEmptyArray)
                        ELSE ReplyNow(MainNullArray)
                   [] name = NameINFO ->
                        \* format!("${}\r\n{}\r\n", info.len(), info)
                        ReplyNow(<<"$">> \o FormatInt(Len(MainInfo)) \o CRLF \o MainInfo \o CRLF)
                   [] OTHER -> ReplyNow(MainErrUnknown)

----------------------------------------------------------------------------
(* The requests the clients of the model send *)

\* SET k v
ReqSetV ==
    <<"*", "3", CR, LF, "$", "3", CR, LF, "S", "E", "T", CR, LF, "$", "1",
      CR, LF, "k", CR, LF, "$", "1", CR, LF, "v", CR, LF>>

\* SET k wwww
ReqSetW ==
    <<"*", "3", CR, LF, "$", "3", CR, LF, "S", "E", "T", CR, LF, "$", "1",
      CR, LF, "k", CR, LF, "$", "4", CR, LF, "w", "w", "w", "w", CR, LF>>

\* GET k
ReqGet ==
    <<"*", "2", CR, LF, "$", "3", CR, LF, "G", "E", "T", CR, LF, "$", "1",
      CR, LF, "k", CR, LF>>

\* get k
ReqGetLower ==
    <<"*", "2", CR, LF, "$", "3", CR, LF, "g", "e", "t", CR, LF, "$", "1",
      CR, LF, "k", CR, LF>>

\* INFO
ReqInfo ==
    <<"*", "1", CR, LF, "$", "4", CR, LF, "I", "N", "F", "O", CR, LF>>

\* COMMAND
ReqCommand ==
    <<"*", "1", CR, LF, "$", "7", CR, LF, "C", "O", "M", "M", "A", "N", "D",
      CR, LF>>

\* MEMORY
ReqMemory ==
    <<"*", "1", CR, LF, "$", "6", CR, LF, "M", "E", "M", "O", "R", "Y", CR, LF>>

\* SAVE
ReqSave ==
    <<"*", "1", CR, LF, "$", "4", CR, LF, "S", "A", "V", "E", CR, LF>>

\* GET with no key
ReqGetNoKey ==
    <<"*", "1", CR, LF, "$", "3", CR, LF, "G", "E", "T", CR, LF>>

\* PING, not an operation of the server
ReqPing ==
    <<"*", "1", CR, LF, "$", "4", CR, LF, "P", "I", "N", "G", CR, LF>>

\* a frame that is not an Array
ReqNotArray ==
    <<"+", "O", "K", CR, LF>>

\* an Array with no elements
ReqEmptyArray ==
    <<"*", "0", CR, LF>>

\* an Array whose bulk string has a length prefix that is not a number
ReqBadLength ==
    <<"*", "1", CR, LF, "$", "x", CR, LF, "I", "N", "F", "O", CR, LF>>

\* an Array of an Integer and a BulkString
ReqMixedArray ==
    <<"*", "2", CR, LF, ":", "1", CR, LF, "$", "4", CR, LF, "I", "N", "F",
      "O", CR, LF>>

Requests ==
    { ReqSetV, ReqSetW, ReqGet, ReqGetLower, ReqInfo, ReqCommand, ReqMemory,
      ReqSave, ReqGetNoKey, ReqPing, ReqNotArray, ReqEmptyArray, ReqBadLength,
      ReqMixedArray }

\* where a frame may be cut by the network: ReqGet after its count line,
\* after the header "$1" of its key, and before its last CRLF; ReqSetV before
\* its last argument
SplitChoices == { <<ReqGet, 4>>, <<ReqGet, 15>>, <<ReqGet, 18>>, <<ReqSetV, 22>> }

\* what one socket read can return at the start of a frame, and what of the
\* frame is then still to come
Deliveries ==
    { [bytes |-> f, rest |-> <<>>] : f \in Requests }
        \cup { [bytes |-> SubSeq(x[1], 1, x[2]),
                rest |-> SubSeq(x[1], x[2] + 1, Len(x[1]))] : x \in SplitChoices }

----------------------------------------------------------------------------
(* main.rs: the accept loop and process_client *)

Conns == 1..NumConns

\* ServerConfig.max_connections, as configured for the model
max_connections == 1

\* tokio::sync::Mutex: 0 when free, else the connection whose task holds it
Free == 0

ServerInit ==
    /\ dispatcher \in {"main", "commands"}
    /\ pc = [c \in Conns |-> "Idle"]
    /\ cbuf = [c \in Conns |-> <<>>]
    /\ cmd = [c \in Conns |-> NoCmd]
    /\ reply = [c \in Conns |-> <<>>]
    /\ rest = [c \in Conns |-> <<>>]
    /\ lock = Free
    /\ acked = EmptyMap

\* the server not started, for the specifications of the other parts
ServerOff ==
    /\ dispatcher = "off"
    /\ pc = <<>>
    /\ cbuf = <<>>
    /\ cmd = <<>>
    /\ reply = <<>>
    /\ rest = <<>>
    /\ lock = Free
    /\ acked = EmptyMap

\* main.rs:25-33: listener.accept() returns the connection of a client, and
\* process_client is spawned for it; the task runs to its first read
Accept(c) ==
    /\ pc[c] = "Idle"
    /\ pc' = [pc EXCEPT ![c] = "Reading"]
    /\ UNCHANGED <<dispatcher, cbuf, cmd, reply, rest, lock, storeVars, respVars, acked>>

\* handle_command up to its first await, for the handler the server runs
Begin(text) == IF dispatcher = "main" THEN MainBegin(text) ELSE CommandsBegin(text)

\* main.rs:46-53: read_buf returns n > 0 bytes, appended to the buffer, and
\* handle_command runs on the whole buffer until it replies, waits for the
\* lock, or loops
Recv(c, d) ==
    /\ pc[c] = "Reading"
    /\ IF rest[c] = <<>> THEN d \in Deliveries ELSE d = [bytes |-> rest[c], rest |-> <<>>]
    /\ rest' = [rest EXCEPT ![c] = d.rest]
    /\ LET buffer == cbuf[c] \o d.bytes
           next == Begin(Utf8Lossy(buffer))
       IN  /\ cbuf' = [cbuf EXCEPT ![c] = buffer]
           /\ CASE next.k = "reply" ->
                     /\ pc' = [pc EXCEPT ![c] = "Writing"]
                     /\ reply' = [reply EXCEPT ![c] = next.bytes]
                     /\ UNCHANGED cmd
                [] next.k = "store" ->
                     /\ pc' = [pc EXCEPT ![c] = "Locking"]
                     /\ cmd' = [cmd EXCEPT ![c] = next]
                     /\ UNCHANGED reply
                [] next.k = "hang" ->
                     /\ pc' = [pc EXCEPT ![c] = "Spinning"]
                     /\ UNCHANGED <<cmd, reply>>
    /\ UNCHANGED <<dispatcher, lock, storeVars, respVars, acked>>

\* db.lock().await that does not wait for the lock to be free
LockWithoutWaiting(c) ==
    /\ pc[c] = "Locking"
    /\ lock' = c
    /\ pc' = [pc EXCEPT ![c] = "InStore"]
    /\ UNCHANGED <<dispatcher, cbuf, cmd, reply, rest, storeVars, respVars, acked>>

\* db.lock().await returns the guard: the lock was free
Lock(c) ==
    /\ pc[c] = "Locking"
    /\ lock = Free
    /\ lock' = c
    /\ pc' = [pc EXCEPT ![c] = "InStore"]
    /\ UNCHANGED <<dispatcher, cbuf, cmd, reply, rest, storeVars, respVars, acked>>

\* a GET that leaves an empty record behind when it finds none
MainAccessGetInserts(c) ==
    /\ CASE cmd[c].op = "Set" ->
              /\ data' = MapPut(data, cmd[c].args[1], cmd[c].args[2])
              /\ reply' = [reply EXCEPT ![c] = MainOK]
         [] cmd[c].op = "Get" ->
              /\ reply' = [reply EXCEPT ![c] =
                    IF cmd[c].args[1] \in DOMAIN data
                    THEN LET value == data[cmd[c].args[1]]
                         IN  <<"$">> \o FormatInt(Len(value)) \o CRLF \o value \o CRLF
                    ELSE MainNullBulk]
              /\ data' = IF cmd[c].args[1] \in DOMAIN data THEN data
                         ELSE MapPut(data, cmd[c].args[1], <<>>)
    /\ UNCHANGED <<current_memory, persistence_enabled, disk, log, loaded, saved, ret>>

\* main.rs:97-109: the store operation on the HashMap, and its reply
MainAccess(c) ==
    /\ CASE cmd[c].op = "Set" ->
              /\ data' = MapPut(data, cmd[c].args[1], cmd[c].args[2])
              /\ reply' = [reply EXCEPT ![c] = MainOK]
         [] cmd[c].op = "Get" ->
              /\ reply' = [reply EXCEPT ![c] =
                    IF cmd[c].args[1] \in DOMAIN data
                    THEN LET value == data[cmd[c].args[1]]
                         IN  <<"$">> \o FormatInt(Len(value)) \o CRLF \o value \o CRLF
                    ELSE MainNullBulk]
              /\ UNCHANGED data
    /\ UNCHANGED <<current_memory, persistence_enabled, disk, log, loaded, saved, ret>>

\* the Set arm answering OK whatever insert returned
CommandsAccessAlwaysOk(c) ==
    CASE cmd[c].op = "Set" ->
           /\ InsertCall(cmd[c].args[1], cmd[c].args[2])
           /\ reply' = [reply EXCEPT ![c] =
                 ToString(SimpleString(TextOK))]
           /\ UNCHANGED <<persistence_enabled, disk, log, loaded, saved>>
      [] cmd[c].op = "Get" ->
           /\ Get(cmd[c].args[1])
           /\ reply' = [reply EXCEPT ![c] =
                 IF ret'.val[1] = "Some" THEN ToString(BulkString(<<ret'.val[2]>>))
                 ELSE ToString(BulkString(<<>>))]
      [] cmd[c].op = "Info" ->
           /\ reply' = [reply EXCEPT ![c] =
                 ToString(BulkString(<<InfoHead \o FormatInt(current_memory)
                     \o InfoPersistence
                     \o (IF persistence_enabled THEN TextTrue ELSE TextFalse) \o CRLF>>))]
           /\ UNCHANGED storeVars
      [] cmd[c].op = "Memory" ->
           /\ reply' = [reply EXCEPT ![c] = ToString(Integer(current_memory))]
           /\ UNCHANGED storeVars
      [] cmd[c].op = "Save" ->
           /\ SaveToDisk
           /\ reply' = [reply EXCEPT ![c] =
                 IF ret'.val = "Ok" THEN ToString(SimpleString(TextOK))
                 ELSE ToString(Error(ErrSaving \o IoErrorText))]

\* commands/mod.rs:86-123: the store operation on the Storage, and its reply
CommandsAccess(c) ==
    CASE cmd[c].op = "Set" ->
           /\ InsertCall(cmd[c].args[1], cmd[c].args[2])
           /\ reply' = [reply EXCEPT ![c] =
                 IF ret'.val THEN ToString(SimpleString(TextOK))
                 ELSE ToString(Error(ErrMaxMemory))]
           /\ UNCHANGED <<persistence_enabled, disk, log, loaded, saved>>
      [] cmd[c].op = "Get" ->
           /\ Get(cmd[c].args[1])
           /\ reply' = [reply EXCEPT ![c] =
                 IF ret'.val[1] = "Some" THEN ToString(BulkString(<<ret'.val[2]>>))
                 ELSE ToString(BulkString(<<>>))]
      [] cmd[c].op = "Info" ->
           /\ reply' = [reply EXCEPT ![c] =
                 ToString(BulkString(<<InfoHead \o FormatInt(current_memory)
                     \o InfoPersistence
                     \o (IF persistence_enabled THEN TextTrue ELSE TextFalse) \o CRLF>>))]
           /\ UNCHANGED storeVars
      [] cmd[c].op = "Memory" ->
           /\ reply' = [reply EXCEPT ![c] = ToString(Integer(current_memory))]
           /\ UNCHANGED storeVars
      [] cmd[c].op = "Save" ->
           /\ SaveToDisk
           /\ reply' = [reply EXCEPT ![c] =
                 IF ret'.val = "Ok" THEN ToString(SimpleString(TextOK))
                 ELSE ToString(Error(ErrSaving \o IoErrorText))]

\* the reply +OK, that of a SET that was applied
IsOkReply(bytes) == bytes = <<"+", "O", "K", CR, LF>>

\* the arm of handle_command that holds the guard: the store operation, then
\* the guard is dropped at the end of the arm and the reply goes back to
\* process_client
Access(c) ==
    /\ pc[c] = "InStore"
    /\ IF dispatcher = "main" THEN MainAccess(c) ELSE CommandsAccess(c)
    /\ lock' = Free
    /\ pc' = [pc EXCEPT ![c] = "Writing"]
    /\ cmd' = [cmd EXCEPT ![c] = NoCmd]
    /\ acked' = IF cmd[c].op = "Set" /\ IsOkReply(reply'[c])
                THEN MapPut(acked, cmd[c].args[1], cmd[c].args[2])
                ELSE acked
    /\ UNCHANGED <<dispatcher, cbuf, rest, respVars>>

\* main.rs:57-60: write_all and flush succeed, then buffer.clear()
Write(c) ==
    /\ pc[c] = "Writing"
    /\ pc' = [pc EXCEPT ![c] = "Reading"]
    /\ cbuf' = [cbuf EXCEPT ![c] = <<>>]
    /\ reply' = [reply EXCEPT ![c] = <<>>]
    /\ UNCHANGED <<dispatcher, cmd, rest, lock, storeVars, respVars, acked>>

\* main.rs:57-58: write_all or flush fails, `?` ends the task with the error
WriteError(c) ==
    /\ pc[c] = "Writing"
    /\ pc' = [pc EXCEPT ![c] = "Failed"]
    /\ UNCHANGED <<dispatcher, cbuf, cmd, reply, rest, lock, storeVars, respVars, acked>>

\* main.rs:46-49: read_buf returns 0 (the client closed), the task returns Ok
Eof(c) ==
    /\ pc[c] = "Reading"
    /\ pc' = [pc EXCEPT ![c] = "Closed"]
    /\ UNCHANGED <<dispatcher, cbuf, cmd, reply, rest, lock, storeVars, respVars, acked>>

\* main.rs:46: read_buf fails, `?` ends the task with the error
ReadError(c) ==
    /\ pc[c] = "Reading"
    /\ pc' = [pc EXCEPT ![c] = "Failed"]
    /\ UNCHANGED <<dispatcher, cbuf, cmd, reply, rest, lock, storeVars, respVars, acked>>

----------------------------------------------------------------------------
(* The specifications *)

\* the store at rest, for the specifications of the other parts
StorageOff ==
    /\ data = EmptyMap
    /\ current_memory = 0
    /\ persistence_enabled = FALSE
    /\ disk = NoFile
    /\ log = <<>>
    /\ loaded = FALSE
    /\ saved = <<>>
    /\ ret = Ret("new", "Ok")

\* the storage engine: any sequence of calls on one Storage
NextStorage ==
    \/ (\E k \in Keys, v \in Values : Insert(k, v)) /\ UNCHANGED <<respVars, serverVars>>
    \/ (\E k \in Keys : Get(k)) /\ UNCHANGED <<respVars, serverVars>>
    \/ SaveToDisk /\ UNCHANGED <<respVars, serverVars>>
    \/ LoadFromDisk /\ UNCHANGED <<respVars, serverVars>>

InitStorage == StorageInit /\ RespOff /\ ServerOff

SpecStorage == InitStorage /\ [][NextStorage]_vars

\* the protocol engine: to_string and parse_resp on bounded inputs
\* the store of a process that starts without a snapshot file: every file it
\* finds later was written by its own save_to_disk
InitOwnDisk ==
    /\ StorageInit
    /\ disk = NoFile
    /\ RespOff
    /\ ServerOff

SpecOwnDisk == InitOwnDisk /\ [][NextStorage]_vars

InitResp == RespInit /\ StorageOff /\ ServerOff

NextResp ==
    \/ Encode /\ UNCHANGED <<storeVars, serverVars>>
    \/ (\E k \in 1..Len(wire) : Receive(k)) /\ UNCHANGED <<storeVars, serverVars>>
    \/ Decode /\ UNCHANGED <<storeVars, serverVars>>

SpecResp == InitResp /\ [][NextResp]_vars

\* the store the server starts with: Storage::new (commands) or HashMap::new
\* (main.rs:17)
InitServer ==
    /\ ServerInit
    /\ data = EmptyMap
    /\ current_memory = 0
    /\ persistence_enabled \in (IF dispatcher = "commands" THEN BOOLEAN ELSE {FALSE})
    /\ disk = NoFile
    /\ log = <<>>
    /\ loaded = FALSE
    /\ saved = <<>>
    /\ ret = Ret("new", "Ok")
    /\ RespOff

NextServer ==
    \/ (\E c \in Conns : Accept(c))
    \/ (\E c \in Conns : \E d \in Deliveries \cup {[bytes |-> rest[c], rest |-> <<>>]} : Recv(c, d))
    \/ (\E c \in Conns : Lock(c))
    \/ (\E c \in Conns : Access(c))
    \/ (\E c \in Conns : Write(c))
    \/ (\E c \in Conns : WriteError(c))
    \/ (\E c \in Conns : Eof(c))
    \/ (\E c \in Conns : ReadError(c))

\* the server: any interleaving of the connections' tasks
SpecServer == InitServer /\ [][NextServer]_vars

\* what the runtime guarantees: a task that can run does run (a task past the
\* lock does its store access, a reply is written or the write fails), and the
\* tokio Mutex serves its waiters in turn. Nothing obliges a client to
\* connect, to send or to close.
ServerFairness ==
    \A c \in Conns :
        /\ SF_vars(Lock(c))
        /\ WF_vars(Access(c))
        /\ WF_vars(Write(c) \/ WriteError(c))

SpecServerFair == InitServer /\ [][NextServer]_vars /\ ServerFairness

----------------------------------------------------------------------------
(* The claims about the storage engine, checked under SpecStorage *)

Last(s) == s[Len(s)]

\* the cumulative size len(key)+len(value) of the first n recorded inserts
RECURSIVE CumSize(_)
CumSize(n) ==
    IF n = 0 THEN 0
    ELSE EntrySize(log[n].key, log[n].value) + CumSize(n - 1)

\* the first n recorded inserts have pairwise distinct keys
DistinctKeys(n) == \A i, j \in 1..n : i # j => log[i].key # log[j].key

\* C1: in every reachable state memory_usage() is the exact sum of
\* len(key)+len(value) over the records the store holds.
C1_MemoryIsExactSum == current_memory = SumSizes(data)

\* an accepted overwrite, a rejected insert and a load have all happened
C1_Witness ==
    /\ loaded
    /\ \E i, j \in 1..Len(log) :
           i < j /\ log[i].key = log[j].key /\ log[i].ok /\ log[j].ok
    /\ \E i \in 1..Len(log) : ~log[i].ok
    /\ data # EmptyMap

\* C2: an insert that returns false leaves the record mapping and the running
\* total exactly as they were before the call.
C2_RejectedInsertChangesNothing ==
    [][ (log' # log /\ ~Last(log').ok)
            => (data' = data /\ current_memory' = current_memory) ]_vars

\* the last call was a rejected overwrite of a key the store holds
C2_Witness ==
    /\ Len(log) > 0
    /\ ret.op = "insert"
    /\ ~Last(log).ok
    /\ Last(log).key \in DOMAIN data
    /\ data[Last(log).key] # Last(log).value

\* C3: an insert that replaces an existing record is accepted exactly when
\* running_total - size of the old record + size of the new one does not
\* exceed the ceiling.
C3_ReplaceAcceptedIffFitsDiscounted ==
    [][ (log' # log /\ Last(log').key \in DOMAIN data)
            => LET e == Last(log')
               IN  e.ok <=> (current_memory - EntrySize(e.key, data[e.key])
                                + EntrySize(e.key, e.value) <= max_memory) ]_vars

\* C4: from an empty store, with pairwise distinct keys, if the cumulative
\* size first exceeds the ceiling at the k-th insert then inserts 1..k-1
\* return true and insert k returns false.
C4_FirstExceedingInsertFails ==
    ~loaded =>
        \A k \in 1..Len(log) :
            (DistinctKeys(k) /\ CumSize(k - 1) <= max_memory /\ CumSize(k) > max_memory)
                => /\ \A i \in 1..(k - 1) : log[i].ok
                   /\ ~log[k].ok

\* three inserts with distinct keys, the third the first to exceed the ceiling
C4_Witness ==
    /\ ~loaded
    /\ Len(log) = 3
    /\ DistinctKeys(3)
    /\ CumSize(2) <= max_memory
    /\ CumSize(3) > max_memory
    /\ log[1].ok /\ log[2].ok /\ ~log[3].ok

----------------------------------------------------------------------------
(* The claims about the protocol engine, checked under SpecResp *)

\* text that holds the two-byte sequence CRLF
HasCrlf(t) == FindCrlf(t) >= 0

\* no SimpleString or Error inside v holds a CRLF
RECURSIVE CrlfFree(_)
CrlfFree(v) ==
    CASE v.t \in {"SimpleString", "Error"} -> ~HasCrlf(v.s)
      [] v.t = "Array" -> \A i \in 1..Len(v.items) : CrlfFree(v.items[i])
      [] OTHER -> TRUE

\* the whole encoding of rv has been delivered and decoded
DecodedWholeEncoding == rphase = "decoded" /\ rv # NoValue /\ buf = wire

\* C5 as claimed: for every RespValue v, parse_resp(v.to_string()) returns
\* (v, length of the encoding).
C5_RoundTripEveryValue ==
    DecodedWholeEncoding => res = Ok(rv, Len(wire))

\* C5 as amended: for every RespValue v in which no SimpleString or Error
\* text holds a CRLF, parse_resp(v.to_string()) returns (v, length of the
\* encoding).
C5_RoundTripCrlfFree ==
    (DecodedWholeEncoding /\ CrlfFree(rv)) => res = Ok(rv, Len(wire))

\* a nested array with a null bulk string inside has made the round trip
C5_Witness ==
    /\ DecodedWholeEncoding
    /\ CrlfFree(rv)
    /\ rv.t = "Array"
    /\ \E i \in 1..Len(rv.items) :
           /\ rv.items[i].t = "Array"
           /\ \E j \in 1..Len(rv.items[i].items) :
                  rv.items[i].items[j] = BulkString(<<>>)
    /\ res = Ok(rv, Len(wire))

\* a valid frame: parse_resp accepts it and consumes all of it
ValidFrame(w) ==
    LET whole == ParseResp(w, overflow_checks)
    IN  whole.k = "Ok" /\ whole.n = Len(w)

\* C6: for every valid frame and every split strictly inside it, parse_resp
\* on the first part alone returns Incomplete, and on the first part
\* followed by the rest it returns what it returns on the whole frame.
C6_SplitFrameIsIncomplete ==
    (rphase = "decoded" /\ ValidFrame(wire)) =>
        /\ Len(buf) < Len(wire) => res = Incomplete
        /\ buf = wire => res = ParseResp(wire, overflow_checks)

\* a frame that arrived in two pieces, decoded at the second call
C6_Witness ==
    /\ rphase = "decoded"
    /\ ValidFrame(wire)
    /\ calls = 2
    /\ buf = wire
    /\ res.k = "Ok"
    /\ res.v.t = "Array"
    /\ Len(res.v.items) = 2

----------------------------------------------------------------------------
(* The claims about the server *)

\* C7: a connection that has received only a proper prefix of a request
\* frame is never sent a reply for that prefix: no reply is written to a
\* connection while bytes of its frame are still to come
C7_NoReplyForPrefix ==
    [][\A c \in Conns :
          rest[c] # <<>> => ~(pc[c] = "Writing" /\ pc'[c] = "Reading")]_vars

\* the connection contexts accepted and not yet ended
Live == { c \in Conns : pc[c] \notin {"Idle", "Closed", "Failed"} }

\* C8: at every moment the number of connection contexts accepted and not
\* yet ended is at most the configured maximum connection count
C8_LiveConnectionsBounded == Cardinality(Live) <= max_connections

\* C9: a connection waiting in Reading that receives no bytes does not wait
\* for ever: it eventually leaves Reading (closed by the idle timeout)
C9_IdleReadingEnds ==
    \A c \in Conns : (pc[c] = "Reading") ~> (pc[c] # "Reading")

\* C10: at most one task is inside a store access at a time; the task inside
\* it holds the lock, and no task holds the lock while it waits on a socket
\* read or a socket write
C10_StoreAccessExclusive ==
    /\ Cardinality({ c \in Conns : pc[c] = "InStore" }) <= 1
    /\ \A c \in Conns : pc[c] = "InStore" => lock = c
    /\ \A c \in Conns : pc[c] \in {"Reading", "Writing"} => lock # c
    /\ lock # Free => pc[lock] = "InStore"

\* one task is inside its store access, holding the lock, while another task
\* waits for the lock
C10_Witness ==
    \E c, d \in Conns :
        /\ c # d
        /\ pc[c] = "InStore"
        /\ lock = c
        /\ pc[d] = "Locking"

\* the reply of a GET that finds value, and of one that finds nothing
BulkReply(value) == <<"$">> \o FormatInt(Len(value)) \o CRLF \o value \o CRLF

NullReply == <<"$", "-", "1", CR, LF>>

\* C11: every GET key replies with the value of the most recent SET on that
\* key that was answered OK, in the order the lock was acquired, or with the
\* null bulk string if there is none
C11_GetSeesLatestAckedSet ==
    [][\A c \in Conns :
          (pc[c] = "InStore" /\ pc'[c] = "Writing" /\ cmd[c].op = "Get")
              => reply'[c] = IF cmd[c].args[1] \in DOMAIN acked
                             THEN BulkReply(acked[cmd[c].args[1]])
                             ELSE NullReply]_vars

\* a GET issued on one connection is answered with the value of a SET made
\* on the other, which is being answered OK at the same moment
C11_Witness ==
    \E c, d \in Conns :
        /\ c # d
        /\ pc[c] = "Writing"
        /\ pc[d] = "Writing"
        /\ IsOkReply(reply[d])
        /\ <<"k">> \in DOMAIN acked
        /\ reply[c] = BulkReply(acked[<<"k">>])

\* the buffer is a protocol format error: the decoder rejects it
IsFormatError(buffer) == ParseResp(buffer, FALSE) = InvalidFormat

\* a RESP Error reply
IsErrorReply(bytes) == Len(bytes) > 0 /\ bytes[1] = "-"

\* C12: a request that is a protocol format error is answered with a RESP
\* Error reply
C12_FormatErrorGetsErrorReply ==
    \A c \in Conns :
        (pc[c] = "Writing" /\ IsFormatError(cbuf[c])) => IsErrorReply(reply[c])

\* the buffer is one top-level Array with at least one element, all of them
\* BulkStrings
IsRequestFrame(buffer) ==
    LET r == ParseResp(buffer, FALSE)
    IN  /\ r.k = "Ok"
        /\ r.n = Len(buffer)
        /\ r.v.t = "Array"
        /\ Len(r.v.items) > 0
        /\ \A i \in 1..Len(r.v.items) : r.v.items[i].t = "BulkString"

\* C13: every request that is not a top-level Array whose elements are all
\* BulkStrings, or that has no elements, is answered with the "invalid
\* command format" Error
C13_MalformedIsInvalidFormat ==
    \A c \in Conns :
        (pc[c] = "Writing" /\ rest[c] = <<>> /\ ~IsRequestFrame(cbuf[c]))
            => reply[c] = ToString(Error(ErrInvalidCommandFormat))

----------------------------------------------------------------------------
(* More claims about the protocol engine *)

\* C14: parse_resp is total: for every input buffer it returns a value with
\* a byte count, NeedMoreData or a format error, and never aborts
C14_ParseRespNeverAborts ==
    rphase = "decoded" => res \in {Incomplete, InvalidFormat} \/ res.k = "Ok"

----------------------------------------------------------------------------
(* More claims about the storage engine *)

\* C15: with persistence disabled, save_to_disk and load_from_disk succeed
\* and change neither the store nor the snapshot file; with persistence
\* enabled, a load_from_disk after a save_to_disk yields exactly the records
\* that were saved, and current_memory after it is the sum of their sizes
C15_SaveThenLoadRestores ==
    [][/\ (~persistence_enabled /\ ret'.op \in {"save", "load"})
            => /\ ret'.val = "Ok"
               /\ data' = data
               /\ current_memory' = current_memory
               /\ disk' = disk
       /\ (persistence_enabled /\ ret'.op = "load" /\ saved # <<>>)
            => /\ ret'.val = "Ok"
               /\ data' = saved[1]
               /\ current_memory' = SumSizes(saved[1])]_vars

\* a load has brought back a saved store of two records, one of them under
\* the key that needs escaping, after the store had moved on to hold other
\* records than the saved ones
C15_Witness ==
    /\ persistence_enabled
    /\ ret = Ret("load", "Ok")
    /\ loaded
    /\ saved # <<>>
    /\ data = saved[1]
    /\ <<QUOTE>> \in DOMAIN data
    /\ Cardinality(DOMAIN data) = 2
    /\ Len(log) > 0
    /\ Last(log).ok
    /\ Last(log).key \notin DOMAIN data

----------------------------------------------------------------------------
(* More claims about the server *)

\* C16: for every buffer a connection receives in one read, request parsing
\* and dispatch terminate: a task that has taken its bytes and is parsing or
\* dispatching them eventually has its reply to write
C16_DispatchTerminates ==
    \A c \in Conns :
        (pc[c] \in {"Spinning", "Locking", "InStore"}) ~> (pc[c] = "Writing")

----------------------------------------------------------------------------
(* Claims about overwriting and about what changes the store *)

\* C17: a SET that is answered OK on a key that holds the value v1 of an
\* earlier SET leaves exactly one record for the key, with the new value v2,
\* the other records as they were, and current_memory changed by exactly
\* len(v2) - len(v1)
C17_OverwriteAdjustsByDifference ==
    [][(/\ Len(log') = Len(log) + 1
        /\ Last(log').ok
        /\ Last(log').key \in DOMAIN data)
          => LET key == Last(log').key
                 v2 == Last(log').value
                 v1 == data[key]
             IN  /\ DOMAIN data' = DOMAIN data
                 /\ data'[key] = v2
                 /\ \A x \in (DOMAIN data) \ {key} : data'[x] = data[x]
                 /\ current_memory' - current_memory = Len(v2) - Len(v1)]_vars

\* two inserts on one key, both accepted, with values of different lengths:
\* one record, the second value, the total that of the second record
C17_Witness ==
    /\ Len(log) = 2
    /\ ~loaded
    /\ log[1].ok
    /\ log[2].ok
    /\ log[1].key = log[2].key
    /\ Len(log[1].value) # Len(log[2].value)
    /\ DOMAIN data = {log[2].key}
    /\ data[log[2].key] = log[2].value
    /\ current_memory = EntrySize(log[2].key, log[2].value)

C19_MemoryWithinCeiling == current_memory <= max_memory

\* the store fills the ceiling exactly, an insert has been rejected for it,
\* and a load has brought the saved store back
C19_Witness ==
    /\ loaded
    /\ ret = Ret("load", "Ok")
    /\ current_memory = max_memory
    /\ saved # <<>>
    /\ Len(log) > 0
    /\ ~Last(log).ok

----------------------------------------------------------------------------
(* The bytes after the first frame *)

\* what may follow a frame in the buffer
Suffixes ==
    { CRLF, <<"x">>, <<"$">>, <<E1, E2>>, <<"+", "x", CR, LF>>,
      <<"*", "1", CR, LF>> }

\* C20: whenever parse_resp succeeds on a buffer with (v, n), n is at most
\* the length of the buffer, the first n bytes are exactly one complete frame
\* (they decode to (v, n) and no shorter prefix of them decodes), and the
\* first n bytes followed by any other suffix decode to the same (v, n)
C20_FirstFrameOnly ==
    (rphase = "decoded" /\ res.k = "Ok")
        => /\ res.n <= Len(buf)
           /\ LET frame == SubSeq(buf, 1, res.n)
              IN  /\ ParseResp(frame, overflow_checks) = res
                  /\ \A k \in 0..(res.n - 1) :
                        IsCharBoundary(frame, k)
                            => ParseResp(SubSeq(frame, 1, k), overflow_checks).k # "Ok"
                  /\ \A sfx \in Suffixes :
                        ParseResp(frame \o sfx, overflow_checks) = res

\* an Array was decoded from a buffer that holds more bytes after it
C20_Witness ==
    /\ rphase = "decoded"
    /\ res.k = "Ok"
    /\ res.v.t = "Array"
    /\ Len(res.v.items) > 0
    /\ res.n < Len(buf)

=============================================================================
